---- MODULE Spec2Model ----
(***************************************************************************)
(* InteropService (ReactNativeClient/lib/services/interop):                *)
(* the module registry (modules, registerModule, findModuleByFormat_) and  *)
(* the export pipeline (export), as state machines.                        *)
(*                                                                         *)
(* Spec          the export pipeline of InteropService.export              *)
(* SpecRegistry  the registry: registerModule / modules / findModuleByFormat_ *)
(*               / moduleByFileExtension_                                  *)
(* SpecImport    registerModule followed by one InteropService.import run  *)
(* SpecRuns      one run of either pipeline: an export or an import        *)
(***************************************************************************)
EXTENDS Integers, Sequences, FiniteSets, TLC

VARIABLES
    \* ---- registry (class fields, lines 20-22) and its observers
    defaultModules_,   \* <<>> (undefined) until the first modules() call, then the built-in list
    userModules_,      \* the registered modules, in registration order
    emitted,           \* number of 'modulesChanged' events emitted so far
    regArgs,           \* the arguments of the registerModule calls so far, in order
    listenerSaw,       \* what the 'modulesChanged' subscriber got from modules() in its callback
    listed,            \* [called, value]: what the caller's latest call returned, if it was modules()
    listedEarlier,     \* the caller called modules() before the latest registerModule
    findArgs,          \* [called, type, format, target, outputFormat]: the caller's latest call, if
                       \* it was findModuleByFormat_
    found,             \* the value it returned
    extArgs,           \* [called, type, ext]: the caller's latest call, if it was
                       \* moduleByFileExtension_
    extFound,          \* the value it returned
    \* ---- one export run (locals of export(), lines 298-427)
    pc,                \* position of the run
    options,           \* the ExportOptions of the run
    store,             \* the item store the run reads
    itemsToExport,     \* the queue
    typeOrderIndex,    \* outer loop index (1-based)
    cursor,            \* inner loop index i: entries < cursor are done for the current type
    warnings,          \* result.warnings
    context,           \* context.resourcePaths
    calls,             \* the converter calls made so far, in order
    loaded,            \* per queue index, what resolving the entry gave (NotLoaded before)
    thrown,            \* the converter errors raised so far: [idx, op, message]
    warnedBy,          \* per warning, the queue index of the entry that caused it
    faults,            \* number of store/converter faults injected so far
    returned,          \* [done, warnings]: the value export() returned
    failure,           \* the message of the error export() threw, "" when none
    storeLoads,        \* the queue indexes for which ItemClass.load was called, in order
    \* ---- one import run (locals of import(), lines 258-296)
    importPc,          \* position of the run
    importArgs,        \* the ImportOptions the caller passed
    importOptions,     \* the local `options`: defaults, then the caller's, then lines 272/279
    examined,          \* the tests the run has made so far, in order: [test, ok]
    sniffed,           \* what moduleByFileExtension_ returned at line 269 (NoModule: not called
                       \* or nothing found)
    importCalls,       \* the importer's construction and the calls made on it, in order
    importResult,      \* [done, warnings]: `result`
    importError        \* the message of the error import() threw, "" when none

regVars == <<defaultModules_, userModules_, emitted, regArgs, listenerSaw, listed, listedEarlier,
             findArgs, found, extArgs, extFound>>
expVars == <<pc, options, store, itemsToExport, typeOrderIndex, cursor, warnings, context, calls,
             loaded, thrown, warnedBy, faults, returned, failure, storeLoads>>
impVars == <<importPc, importArgs, importOptions, examined, sniffed, importCalls, importResult,
             importError>>
vars == <<regVars, expVars, impVars>>

\* ------------------------------------------------------------------ values

Null == "null"            \* JavaScript null / undefined where a string is expected
NoModule == [type |-> "none"]   \* null where a module descriptor is expected

Importer == "importer"    \* ModuleType.Importer
Exporter == "exporter"    \* ModuleType.Exporter
File == "file"            \* FileSystemItem.File
Directory == "directory"  \* FileSystemItem.Directory
Markdown == "md"          \* ImportModuleOutputFormat.Markdown
Html == "html"            \* ImportModuleOutputFormat.Html

\* JavaScript truthiness of a string-or-null value
Truthy(v) == v \notin {Null, ""}

\* obj.field of a string field, undefined when the object has no such field
Get(m, f) == IF f \in DOMAIN m THEN m[f] ELSE Null

\* !!m.isDefault
isDefaultOf(m) == IF "isDefault" \in DOMAIN m THEN m.isDefault ELSE FALSE

\* seq.indexOf(x) >= 0
includes(seq, x) == \E k \in 1..Len(seq) : seq[k] = x

\* { ...a, ...b }: the fields of b over those of a
spread(a, b) == [f \in DOMAIN a \cup DOMAIN b |-> IF f \in DOMAIN b THEN b[f] ELSE a[f]]

\* ------------------------------------------------------------------ bounds

MaxUserModules == 2       \* registerModule calls per behaviour
MaxFaults == 2            \* store / converter faults per export run

\* ------------------------------------------------------------------ registry

\* types.defaultImportExportModule(type): the defaulted fields of a descriptor
defaultImportExportModule(type) ==
    [type |-> type, format |-> "", fileExtensions |-> <<>>, sources |-> <<>>,
     description |-> "", isNoteArchive |-> TRUE, importerClass |-> "",
     outputFormat |-> Markdown, isDefault |-> FALSE]

importModules ==
    << spread(defaultImportExportModule(Importer),
              [format |-> "jex", fileExtensions |-> <<"jex">>, sources |-> <<File>>,
               description |-> "Joplin Export File"]),
       spread(defaultImportExportModule(Importer),
              [format |-> "md", fileExtensions |-> <<"md", "markdown", "txt">>,
               sources |-> <<File, Directory>>, isNoteArchive |-> FALSE,
               description |-> "Markdown"]),
       spread(defaultImportExportModule(Importer),
              [format |-> "raw", sources |-> <<Directory>>,
               description |-> "Joplin Export Directory"]),
       spread(defaultImportExportModule(Importer),
              [format |-> "enex", fileExtensions |-> <<"enex">>, sources |-> <<File>>,
               description |-> "Evernote Export File (as Markdown)",
               importerClass |-> "InteropService_Importer_EnexToMd", isDefault |-> TRUE]),
       spread(defaultImportExportModule(Importer),
              [format |-> "enex", fileExtensions |-> <<"enex">>, sources |-> <<File>>,
               description |-> "Evernote Export File (as HTML)",
               importerClass |-> "InteropService_Importer_EnexToHtml",
               outputFormat |-> Html]) >>

exportModules ==
    << spread(defaultImportExportModule(Exporter),
              [format |-> "jex", fileExtensions |-> <<"jex">>, target |-> File,
               canDoMultiExport |-> TRUE, description |-> "Joplin Export File"]),
       spread(defaultImportExportModule(Exporter),
              [format |-> "raw", target |-> Directory,
               description |-> "Joplin Export Directory"]),
       spread(defaultImportExportModule(Exporter),
              [format |-> "md", target |-> Directory, description |-> "Markdown"]),
       spread(defaultImportExportModule(Exporter),
              [format |-> "html", fileExtensions |-> <<"html", "htm">>, target |-> File,
               canDoMultiExport |-> FALSE, description |-> "HTML File"]),
       spread(defaultImportExportModule(Exporter),
              [format |-> "html", target |-> Directory,
               description |-> "HTML Directory"]) >>

\* the value of this.defaultModules_ after the lazy initialisation of modules()
defaultModulesAfter(dm) == IF dm = <<>> THEN importModules \o exportModules ELSE dm

modules_dropsUser(dm, um) == defaultModulesAfter(dm)

\* modules(): this.defaultModules_.concat(this.userModules_)
modules(dm, um) == defaultModulesAfter(dm) \o um

registered_defaultsWin(module) == spread(module, defaultImportExportModule(module.type))

\* registerModule, lines 131-134: the descriptor that is stored
registered(module) == spread(defaultImportExportModule(module.type), module)

\* findModuleByFormat_, lines 151-158: whether module m is pushed to `matches`
isMatch(m, type, format, target, outputFormat) ==
    /\ m.format = format /\ m.type = type
    /\ \/ (~Truthy(target) /\ ~Truthy(outputFormat))
       \/ (Truthy(target) /\ target = Get(m, "target"))
       \/ (Truthy(outputFormat) /\ outputFormat = Get(m, "outputFormat"))

\* lines 148-160: the loop building `matches` from ms[i..]
RECURSIVE matchesFrom(_, _, _, _, _, _)
matchesFrom(ms, i, type, format, target, outputFormat) ==
    IF i > Len(ms) THEN <<>>
    ELSE (IF isMatch(ms[i], type, format, target, outputFormat) THEN <<ms[i]>> ELSE <<>>)
         \o matchesFrom(ms, i + 1, type, format, target, outputFormat)

\* Array.prototype.find(m => !!m.isDefault) from index i on; NoModule when there is none
RECURSIVE findDefault(_, _)
findDefault(matches, i) ==
    IF i > Len(matches) THEN NoModule
    ELSE IF isDefaultOf(matches[i]) THEN matches[i]
    ELSE findDefault(matches, i + 1)

pick_firstMatch(matches) == IF Len(matches) > 0 THEN matches[1] ELSE NoModule

\* lines 162-165: the match returned
pick(matches) ==
    IF findDefault(matches, 1) # NoModule THEN findDefault(matches, 1)
    ELSE IF Len(matches) > 0 THEN matches[1] ELSE NoModule

\* findModuleByFormat_(type, format, target, outputFormat) over the module list ms
findModuleByFormat_(ms, type, format, target, outputFormat) ==
    pick(matchesFrom(ms, 1, type, format, target, outputFormat))

\* ------------------------------------------------------------------ registry: operations

\* the descriptors callers pass to registerModule
UserModuleInputs ==
    { [type |-> Importer, format |-> "enex", fileExtensions |-> <<"ENEX", "EVX">>, sources |-> <<File>>,
       outputFormat |-> Html, isDefault |-> TRUE],
      [type |-> Exporter, format |-> "html", target |-> File, isDefault |-> TRUE],
      [type |-> Exporter, format |-> "html", target |-> Directory, outputFormat |-> Html,
       isDefault |-> TRUE],
      [type |-> Exporter, format |-> "md", target |-> File, description |-> "Markdown File"] }

FindTypes == {Importer, Exporter}
FindFormats == {"md", "enex", "html", "zzz"}
FindTargets == {Null, File, Directory}
FindOutputFormats == {Null, Markdown, Html}

\* String.prototype.toLowerCase, on the strings used as file extensions
toLowerCase(s) ==
    CASE s = "ENEX" -> "enex"
      [] s = "EVX" -> "evx"
      [] s = "MD" -> "md"
      [] OTHER -> s

\* moduleByFileExtension_, lines 249-253, from index i on
RECURSIVE moduleByFileExtensionFrom(_, _, _, _)
moduleByFileExtensionFrom(ms, i, type, ext) ==
    IF i > Len(ms) THEN NoModule
    ELSE IF type = ms[i].type /\ "fileExtensions" \in DOMAIN ms[i] /\ includes(ms[i].fileExtensions, ext)
         THEN ms[i]
    ELSE moduleByFileExtensionFrom(ms, i + 1, type, ext)

\* moduleByFileExtension_(type, ext) over the module list ms
moduleByFileExtension_(ms, type, ext) == moduleByFileExtensionFrom(ms, 1, type, toLowerCase(ext))

\* the extensions callers look up
ExtInputs == {"enex", "ENEX", "evx", "EVX", "zzz"}

NotListed == [called |-> FALSE, value |-> <<>>]
NoExt == [called |-> FALSE, type |-> Null, ext |-> Null]
NoFind == [called |-> FALSE, type |-> Null, format |-> Null, target |-> Null, outputFormat |-> Null]

RegistryInit ==
    /\ defaultModules_ = <<>>
    /\ userModules_ = <<>>
    /\ emitted = 0
    /\ regArgs = <<>>
    /\ listenerSaw = <<>>
    /\ listed = NotListed
    /\ listedEarlier = FALSE
    /\ findArgs = NoFind
    /\ found = NoModule
    /\ extArgs = NoExt
    /\ extFound = NoModule

atEmit_beforePush(dm, before, after) == modules(dm, before)

\* registerModule, lines 136-138: the list a 'modulesChanged' subscriber reads from
\* modules() in its callback; `before`/`after` are userModules_ around the push
atEmit(dm, before, after) == modules(dm, after)

\* registerModule(module), with one subscriber that calls modules() in its callback
RegisterModule(module) ==
    /\ Len(regArgs) < MaxUserModules
    /\ userModules_' = Append(userModules_, registered(module))
    /\ emitted' = emitted + 1
    /\ listenerSaw' = atEmit(defaultModules_, userModules_, userModules_')
    /\ defaultModules_' = defaultModulesAfter(defaultModules_)
    /\ regArgs' = Append(regArgs, module)
    /\ listedEarlier' = (listedEarlier \/ listed.called)
    /\ listed' = NotListed
    /\ findArgs' = NoFind
    /\ found' = NoModule
    /\ extArgs' = NoExt
    /\ extFound' = NoModule

\* a caller's modules() call
ListModules ==
    /\ listed' = [called |-> TRUE, value |-> modules(defaultModules_, userModules_)]
    /\ defaultModules_' = defaultModulesAfter(defaultModules_)
    /\ findArgs' = NoFind
    /\ found' = NoModule
    /\ extArgs' = NoExt
    /\ extFound' = NoModule
    /\ UNCHANGED <<userModules_, emitted, regArgs, listenerSaw, listedEarlier>>

\* a caller's findModuleByFormat_(type, format, target, outputFormat) call
FindModuleByFormat(type, format, target, outputFormat) ==
    /\ findArgs' = [called |-> TRUE, type |-> type, format |-> format, target |-> target,
                    outputFormat |-> outputFormat]
    /\ found' = findModuleByFormat_(modules(defaultModules_, userModules_),
                                    type, format, target, outputFormat)
    /\ defaultModules_' = defaultModulesAfter(defaultModules_)
    /\ listed' = NotListed
    /\ extArgs' = NoExt
    /\ extFound' = NoModule
    /\ UNCHANGED <<userModules_, emitted, regArgs, listenerSaw, listedEarlier>>

\* a caller's moduleByFileExtension_(type, ext) call
ModuleByFileExtension(type, ext) ==
    /\ extArgs' = [called |-> TRUE, type |-> type, ext |-> ext]
    /\ extFound' = moduleByFileExtension_(modules(defaultModules_, userModules_), type, ext)
    /\ defaultModules_' = defaultModulesAfter(defaultModules_)
    /\ listed' = NotListed
    /\ findArgs' = NoFind
    /\ found' = NoModule
    /\ UNCHANGED <<userModules_, emitted, regArgs, listenerSaw, listedEarlier>>

\* ------------------------------------------------------------------ item store

TYPE_NOTE == "note"           \* BaseModel.TYPE_NOTE
TYPE_FOLDER == "folder"       \* BaseModel.TYPE_FOLDER
TYPE_RESOURCE == "resource"   \* BaseModel.TYPE_RESOURCE
TYPE_TAG == "tag"             \* BaseModel.TYPE_TAG
TYPE_NOTE_TAG == "note_tag"   \* BaseModel.TYPE_NOTE_TAG

\* the folders of the store whose parent_id is `id`, in row order
childFolders(st, id) == SelectSeq(st.folderOrder, LAMBDA f : st.parent[f] = id)

\* Folder.childrenIds(folderId): the ids of all descendants, each folder followed
\* by its own descendants
RECURSIVE childrenIds(_, _)
RECURSIVE descend(_, _, _)
descend(st, kids, i) ==
    IF i > Len(kids) THEN <<>>
    ELSE <<kids[i]>> \o childrenIds(st, kids[i]) \o descend(st, kids, i + 1)
childrenIds(st, folderId) == descend(st, childFolders(st, folderId), 1)

\* Note.load(noteId)
RECURSIVE loadNoteFrom(_, _, _)
loadNoteFrom(st, noteId, k) ==
    IF st.notes[k].id = noteId THEN st.notes[k] ELSE loadNoteFrom(st, noteId, k + 1)
loadNote(st, noteId) == loadNoteFrom(st, noteId, 1)

\* Folder.noteIds(folderId): the ids of the notes directly under the folder
RECURSIVE noteIdsFrom(_, _, _)
noteIdsFrom(st, folderId, k) ==
    IF k > Len(st.notes) THEN <<>>
    ELSE (IF st.notes[k].parent_id = folderId THEN <<st.notes[k].id>> ELSE <<>>)
         \o noteIdsFrom(st, folderId, k + 1)
noteIds(st, folderId) == noteIdsFrom(st, folderId, 1)

\* Note.linkedResourceIds(note.body): the resource ids the body links to, in order
linkedResourceIds(body) == body

\* ArrayUtils.unique(array): the first occurrence of every element, in order
RECURSIVE uniqueFrom(_, _)
uniqueFrom(array, k) ==
    IF k > Len(array) THEN <<>>
    ELSE (IF includes(SubSeq(array, 1, k - 1), array[k]) THEN <<>> ELSE <<array[k]>>)
         \o uniqueFrom(array, k + 1)
unique(array) == uniqueFrom(array, 1)

\* Resource.fullPath(item)
fullPath(item) == <<"resourceDir", item.id>>

\* ------------------------------------------------------------------ export: collection

\* queue entries: itemOrId is an id (typeof 'string') or a loaded object (typeof 'object')
ById(id) == [isObject |-> FALSE, id |-> id]
Obj(item) == [isObject |-> TRUE, id |-> item.id, item |-> item]

\* queueExportItem(itemType, itemOrId), lines 310-315: the entry pushed
queueExportItem(itemType, itemOrId) == [type |-> itemType, itemOrId |-> itemOrId]

fullSourceFolderIds_noChildren(st, sourceFolderIds) == sourceFolderIds

\* lines 323-329: sourceFolderIds followed by the children ids of each of them
RECURSIVE fullSourceFolderIdsFrom(_, _, _)
fullSourceFolderIdsFrom(st, sourceFolderIds, i) ==
    IF i > Len(sourceFolderIds) THEN <<>>
    ELSE childrenIds(st, sourceFolderIds[i]) \o fullSourceFolderIdsFrom(st, sourceFolderIds, i + 1)
fullSourceFolderIds(st, sourceFolderIds) ==
    sourceFolderIds \o fullSourceFolderIdsFrom(st, sourceFolderIds, 1)

\* line 333: the folder is skipped
folderSkipped(sourceFolderIds, folderId) ==
    Len(sourceFolderIds) > 0 /\ ~includes(sourceFolderIds, folderId)

noteSkipped_noLengthTest(sourceNoteIds, noteId) == ~includes(sourceNoteIds, noteId)

\* line 341: the note is skipped
noteSkipped(sourceNoteIds, noteId) ==
    Len(sourceNoteIds) > 0 /\ ~includes(sourceNoteIds, noteId)

\* lines 339-348: the note loop of one folder; acc = [items, exportedNoteIds, resourceIds]
RECURSIVE collectNotes(_, _, _, _, _)
collectNotes(st, nids, noteIndex, sourceNoteIds, acc) ==
    IF noteIndex > Len(nids) THEN acc
    ELSE IF noteSkipped(sourceNoteIds, nids[noteIndex])
         THEN collectNotes(st, nids, noteIndex + 1, sourceNoteIds, acc)
    ELSE LET note == loadNote(st, nids[noteIndex]) IN
         collectNotes(st, nids, noteIndex + 1, sourceNoteIds,
             [items |-> Append(acc.items, queueExportItem(TYPE_NOTE, Obj(note))),
              exportedNoteIds |-> Append(acc.exportedNoteIds, nids[noteIndex]),
              resourceIds |-> acc.resourceIds \o linkedResourceIds(note.body)])

\* lines 331-349: the folder loop
RECURSIVE collectFolders(_, _, _, _, _, _)
collectFolders(st, folderIds, folderIndex, sourceFolderIds, sourceNoteIds, acc) ==
    IF folderIndex > Len(folderIds) THEN acc
    ELSE IF folderSkipped(sourceFolderIds, folderIds[folderIndex])
         THEN collectFolders(st, folderIds, folderIndex + 1, sourceFolderIds, sourceNoteIds, acc)
    ELSE LET folderId == folderIds[folderIndex]
             acc1 == IF Len(sourceNoteIds) = 0
                     THEN [acc EXCEPT !.items = Append(@, queueExportItem(TYPE_FOLDER, ById(folderId)))]
                     ELSE acc
         IN collectFolders(st, folderIds, folderIndex + 1, sourceFolderIds, sourceNoteIds,
                collectNotes(st, noteIds(st, folderId), 1, sourceNoteIds, acc1))

resourceIdsToQueue_noUnique(resourceIds) == resourceIds

\* line 351: the resource ids that are enqueued
resourceIdsToQueue(resourceIds) == unique(resourceIds)

\* lines 353-355
RECURSIVE queueResources(_, _)
queueResources(resourceIds, i) ==
    IF i > Len(resourceIds) THEN <<>>
    ELSE <<queueExportItem(TYPE_RESOURCE, ById(resourceIds[i]))>> \o queueResources(resourceIds, i + 1)

\* lines 361-366: the note-tag loop; acc = [items, exportedTagIds]
RECURSIVE collectNoteTags(_, _, _, _)
collectNoteTags(noteTags, i, exportedNoteIds, acc) ==
    IF i > Len(noteTags) THEN acc
    ELSE IF ~includes(exportedNoteIds, noteTags[i].note_id)
         THEN collectNoteTags(noteTags, i + 1, exportedNoteIds, acc)
    ELSE collectNoteTags(noteTags, i + 1, exportedNoteIds,
             [items |-> Append(acc.items, queueExportItem(TYPE_NOTE_TAG, ById(noteTags[i].id))),
              exportedTagIds |-> Append(acc.exportedTagIds, noteTags[i].tag_id)])

\* lines 368-370
RECURSIVE queueTags(_, _)
queueTags(exportedTagIds, i) ==
    IF i > Len(exportedTagIds) THEN <<>>
    ELSE <<queueExportItem(TYPE_TAG, ById(exportedTagIds[i]))>> \o queueTags(exportedTagIds, i + 1)

\* lines 305-370: itemsToExport at the end of collection
collect(st, sourceFolderIds0, sourceNoteIds) ==
    LET folderIds == childrenIds(st, "")
        sourceFolderIds == fullSourceFolderIds(st, sourceFolderIds0)
        a == collectFolders(st, folderIds, 1, sourceFolderIds, sourceNoteIds,
                            [items |-> <<>>, exportedNoteIds |-> <<>>, resourceIds |-> <<>>])
        withResources == a.items \o queueResources(resourceIdsToQueue(a.resourceIds), 1)
        b == collectNoteTags(st.noteTags, 1, a.exportedNoteIds,
                             [items |-> withResources, exportedTagIds |-> <<>>])
    IN b.items \o queueTags(b.exportedTagIds, 1)

\* ------------------------------------------------------------------ module resolver

\* modulePath(module), lines 168-176: the implementation that is loaded
modulePath(module) ==
    IF module.type = Importer
    THEN IF Truthy(Get(module, "importerClass"))
         THEN <<"lib/services/interop", module.importerClass>>
         ELSE <<"lib/services/interop", "InteropService_Importer_", "toTitleCase", module.format>>
    ELSE <<"lib/services/interop", "InteropService_Exporter_", "toTitleCase", module.format>>

\* the messages of the errors of lines 195 and 224, and of the TypeError that reading a
\* property of null raises
CannotLoadForTarget == "Cannot load %s module for format %s and target %s"
CannotLoadForOutput == "Cannot load %s module for format %s and output %s"
TypeError == "TypeError: Cannot read property instanceFactory of null"

\* lines 199-204 / 232-237: how the instance is made: by newModuleFromCustomFactory when
\* the descriptor has an instanceFactory, else by require(path)
instance(moduleMetadata, path) ==
    IF Truthy(Get(moduleMetadata, "instanceFactory"))
    THEN <<"newModuleFromCustomFactory", moduleMetadata.instanceFactory>>
    ELSE path

\* newModuleFromPath_(type, options), lines 219-242: [ok, error, metadata, modulePath];
\* metadata is the argument of setMetadata, modulePath what the instance is made from
newModuleFromPath_(ms, type, opts) ==
    LET given == Get(opts, "modulePath")
        moduleMetadata == findModuleByFormat_(ms, type, Get(opts, "format"), Get(opts, "target"), Null)
    IN IF ~Truthy(given) /\ moduleMetadata = NoModule
       THEN [ok |-> FALSE, error |-> CannotLoadForTarget, metadata |-> NoModule, modulePath |-> <<>>]
       ELSE IF moduleMetadata = NoModule   \* line 232 reads a field of null
       THEN [ok |-> FALSE, error |-> TypeError, metadata |-> NoModule, modulePath |-> <<given>>]
       ELSE [ok |-> TRUE, error |-> "",
             metadata |-> spread([options |-> opts], moduleMetadata),
             modulePath |-> instance(moduleMetadata,
                                     IF Truthy(given) THEN <<given>> ELSE modulePath(moduleMetadata))]

\* newModuleByFormat_(type, format, outputFormat), lines 193-209; outputFormat is Null
\* when the caller passes undefined, and the parameter's default applies
newModuleByFormat_(ms, type, format, outputFormat) ==
    LET moduleMetadata == findModuleByFormat_(ms, type, format, Null,
                                              IF outputFormat = Null THEN Markdown ELSE outputFormat)
    IN IF moduleMetadata = NoModule
       THEN [ok |-> FALSE, error |-> CannotLoadForOutput, metadata |-> NoModule, modulePath |-> <<>>]
       ELSE [ok |-> TRUE, error |-> "", metadata |-> moduleMetadata,
             modulePath |-> instance(moduleMetadata, modulePath(moduleMetadata))]

\* ------------------------------------------------------------------ export: dispatch

typeOrder_notesFirst == <<TYPE_FOLDER, TYPE_NOTE, TYPE_RESOURCE, TYPE_TAG, TYPE_NOTE_TAG>>

\* line 375
typeOrder == <<TYPE_FOLDER, TYPE_RESOURCE, TYPE_NOTE, TYPE_TAG, TYPE_NOTE_TAG>>

NoItem == [id |-> Null]               \* what ItemClass.load gives for an unknown id
NotLoaded == [id |-> "notloaded"]     \* the entry has not been resolved yet

flag(item, f) == f \in DOMAIN item /\ item[f]

\* sprintf(fmt, args...)
sprintf(fmt, args) == [fmt |-> fmt, args |-> args]

\* ItemClass.tableName()
tableName(itemType) ==
    CASE itemType = TYPE_FOLDER -> "folders"
      [] itemType = TYPE_RESOURCE -> "resources"
      [] itemType = TYPE_NOTE -> "notes"
      [] itemType = TYPE_TAG -> "tags"
      [] itemType = TYPE_NOTE_TAG -> "note_tags"

\* lines 395-399: the warning for an entry that cannot be loaded
missingWarning(itemType, id) ==
    IF itemType = TYPE_RESOURCE
    THEN sprintf("A resource that does not exist is referenced in a note. The resource was skipped. Resource ID: %s", <<id>>)
    ELSE sprintf("Cannot find item with type %s and ID %s. Item was skipped.", <<tableName(itemType), id>>)

isEncrypted_both(item) == flag(item, "encryption_applied") /\ flag(item, "encryption_blob_encrypted")

\* line 403
isEncrypted(item) == flag(item, "encryption_applied") \/ flag(item, "encryption_blob_encrypted")

\* line 404
encryptedWarning(itemType, item) ==
    sprintf("This item is currently encrypted: %s %s (%s) and was not exported. You may wait for it to be decrypted and try again.",
            <<itemType, IF Truthy(Get(item, "title")) THEN item.title ELSE item.id, item.id>>)

setKey_replace(ctx, k, v) == [x \in {k} |-> v]

\* context.resourcePaths[id] = path
setKey(ctx, k, v) == [x \in DOMAIN ctx \cup {k} |-> IF x = k THEN v ELSE ctx[x]]

call(op, itemType, idx, threw, ctx, queue, path) ==
    [op |-> op, type |-> itemType, idx |-> idx, threw |-> threw, ctx |-> ctx, queue |-> queue, path |-> path]

\* line 383: the call that announces a type
prepareCall_ownType(itemType, queue) ==
    call("prepareForProcessingItemType", itemType, 0, FALSE, <<>>,
         SelectSeq(queue, LAMBDA e : e.type = itemType), <<>>)

prepareCall(itemType, queue) ==
    call("prepareForProcessingItemType", itemType, 0, FALSE, <<>>, queue, <<>>)

pushWarning_replace(ws, w) == <<w>>

\* result.warnings.push(w), lines 396, 398, 404, 419
pushWarning(ws, w) == Append(ws, w)

needsLoad_always(itemOrId) == TRUE

\* line 392: typeof itemOrId !== 'object', the entry is resolved by ItemClass.load
needsLoad(itemOrId) == ~itemOrId.isObject

dispatchCalls_itemAfterThrow(itemType, idx, item, ctx, throwAt) ==
    (IF itemType = TYPE_RESOURCE
     THEN <<call("updateContext", itemType, idx, throwAt = "updateContext", ctx, <<>>, <<>>),
            call("processResource", itemType, idx, throwAt = "processResource", <<>>, <<>>, fullPath(item))>>
     ELSE <<>>)
    \o <<call("processItem", itemType, idx, throwAt = "processItem", <<>>, <<>>, <<>>)>>

caught_resourceOnly(op) == op \in {"updateContext", "processResource"}

\* lines 408-417: the converter calls made inside the try block
caught(op) == op \in {"updateContext", "processResource", "processItem"}

\* lines 409-416: the converter calls of one entry, when the call `throwAt` throws
dispatchCalls(itemType, idx, item, ctx, throwAt) ==
    (IF itemType = TYPE_RESOURCE
     THEN <<call("updateContext", itemType, idx, throwAt = "updateContext", ctx, <<>>, <<>>)>>
          \o (IF throwAt = "updateContext" THEN <<>>
              ELSE <<call("processResource", itemType, idx, throwAt = "processResource", <<>>, <<>>, fullPath(item))>>)
     ELSE <<>>)
    \o (IF itemType = TYPE_RESOURCE /\ throwAt \in {"updateContext", "processResource"} THEN <<>>
        ELSE <<call("processItem", itemType, idx, throwAt = "processItem", <<>>, <<>>, <<>>)>>)

\* the first index >= from of an entry of the given type, 0 when there is none
RECURSIVE firstOfType(_, _, _)
firstOfType(queue, itemType, from) ==
    IF from > Len(queue) THEN 0
    ELSE IF queue[from].type = itemType THEN from
    ELSE firstOfType(queue, itemType, from + 1)

allTypesDone_early(toi) == toi >= Len(typeOrder)

\* line 380: the outer loop is over
allTypesDone(toi) == toi > Len(typeOrder)

\* lines 380-388: where the run stands after it has finished index `from - 1` of type
\* number toi (from = 1: right after prepareForProcessingItemType)
position(queue, toi, from) ==
    IF firstOfType(queue, typeOrder[toi], from) # 0
    THEN [pc |-> "dispatch", typeOrderIndex |-> toi, cursor |-> firstOfType(queue, typeOrder[toi], from)]
    ELSE IF allTypesDone(toi + 1)
    THEN [pc |-> "close", typeOrderIndex |-> toi + 1, cursor |-> 0]
    ELSE [pc |-> "prepare", typeOrderIndex |-> toi + 1, cursor |-> 0]

\* ------------------------------------------------------------------ export: the run

\* [b1, b2, e2]: the resource links of the bodies of notes n1 and n2, and whether n2 is
\* still encrypted
NoteVariants ==
    { [b1 |-> <<>>, b2 |-> <<>>, e2 |-> FALSE],
      [b1 |-> <<"r1">>, b2 |-> <<>>, e2 |-> TRUE],
      [b1 |-> <<"r1">>, b2 |-> <<"r1">>, e2 |-> FALSE],
      [b1 |-> <<"r1">>, b2 |-> <<"r2", "r1">>, e2 |-> FALSE],
      [b1 |-> <<"r2", "r2">>, b2 |-> <<>>, e2 |-> FALSE] }

NoteTagLists ==
    { <<>>,
      << [id |-> "nt2", note_id |-> "n2", tag_id |-> "t2"] >>,
      << [id |-> "nt1", note_id |-> "n1", tag_id |-> "t1"],
         [id |-> "nt3", note_id |-> "n9", tag_id |-> "t2"],
         [id |-> "nt2", note_id |-> "n2", tag_id |-> "t1"] >> }

\* stores: two folders (f2 at the root or under f1), a note in each, note bodies linking
\* resources, note-tags
StoresOf(parents, variants, noteTagLists) ==
    { [folderOrder |-> <<"f1", "f2">>,
       parent |-> [f \in {"f1", "f2"} |-> IF f = "f2" THEN p ELSE ""],
       notes |-> << [id |-> "n1", parent_id |-> "f1", body |-> v.b1, encryption_applied |-> FALSE],
                    [id |-> "n2", parent_id |-> "f2", body |-> v.b2, encryption_applied |-> v.e2] >>,
       noteTags |-> nts]
      : p \in parents, v \in variants, nts \in noteTagLists }

\* the stores exported without filter, and those exported with a filter
Stores == StoresOf({"f1"}, NoteVariants, NoteTagLists)
FilterStores ==
    StoresOf({"", "f1"},
             {v \in NoteVariants : v.b1 = <<"r1">> /\ (v.e2 \/ Len(v.b2) = 2)},
             {nts \in NoteTagLists : Len(nts) <= 1})

\* the options callers pass to export()
ExportOptionInputs ==
    { [path |-> "out"],
      [path |-> "out", format |-> "zzz"],
      [path |-> "out", format |-> "zzz", modulePath |-> "custom/exporter"] }
FilterOptionInputs ==
    { [path |-> "out", sourceFolderIds |-> <<"f1">>],
      [path |-> "out", sourceFolderIds |-> <<"f1", "f2">>],
      [path |-> "out", sourceNoteIds |-> <<"n2">>],
      [path |-> "out", sourceFolderIds |-> <<"f1">>, sourceNoteIds |-> <<"n1", "n2">>] }

\* the messages of the errors a converter call may throw
ErrorMessages(op) == IF op = "processItem" THEN {"bad item", "disk full"} ELSE {"disk full"}

\* options.f ? options.f : []
listOption(opts, f) == IF f \in DOMAIN opts THEN opts[f] ELSE <<>>

\* what ItemClass.load(id) may give for an entry of the given type
LoadResults(itemType, id) ==
    { [id |-> id, encryption_applied |-> FALSE, encryption_blob_encrypted |-> FALSE],
      [id |-> id, encryption_applied |-> TRUE, encryption_blob_encrypted |-> FALSE],
      NoItem }
    \cup (IF itemType = TYPE_RESOURCE
          THEN {[id |-> id, encryption_applied |-> FALSE, encryption_blob_encrypted |-> TRUE]}
          ELSE {})

ThrowPoints(itemType) ==
    IF itemType = TYPE_RESOURCE THEN {"updateContext", "processResource", "processItem"}
    ELSE {"processItem"}

NotReturned == [done |-> FALSE, warnings |-> <<>>]

ExportIdle ==
    /\ itemsToExport = <<>>
    /\ typeOrderIndex = 0
    /\ cursor = 0
    /\ warnings = <<>>
    /\ context = <<>>
    /\ calls = <<>>
    /\ loaded = <<>>
    /\ thrown = <<>>
    /\ warnedBy = <<>>
    /\ faults = 0
    /\ returned = NotReturned
    /\ failure = ""
    /\ storeLoads = <<>>

ExportInit ==
    /\ pc = "start"
    /\ \/ store \in Stores /\ options \in ExportOptionInputs
       \/ store \in FilterStores /\ options \in FilterOptionInputs
    /\ ExportIdle

\* lines 299-370: the options are defaulted and the queue is collected
Collect ==
    /\ pc = "start"
    /\ options' = spread([format |-> "jex"], options)
    /\ itemsToExport' = collect(store, listOption(options, "sourceFolderIds"),
                                listOption(options, "sourceNoteIds"))
    /\ loaded' = [i \in 1..Len(itemsToExport') |-> NotLoaded]
    /\ pc' = "collected"
    /\ UNCHANGED <<store, typeOrderIndex, cursor, warnings, context, calls, thrown, warnedBy,
                   faults, returned, failure, storeLoads>>

\* lines 372-373: the exporter is resolved (setMetadata) and initialised, or the run throws
NewExporter ==
    /\ pc = "collected"
    /\ LET r == newModuleFromPath_(modules(defaultModules_, userModules_), Exporter, options) IN
       IF r.ok
       THEN /\ calls' = calls \o << call("setMetadata", "", 0, FALSE, <<>>, <<>>, <<>>),
                                    call("init", "", 0, FALSE, <<>>, <<>>, <<>>) >>
            /\ typeOrderIndex' = 1
            /\ pc' = "prepare"
            /\ UNCHANGED failure
       ELSE /\ pc' = "failed"
            /\ failure' = r.error
            /\ UNCHANGED <<calls, typeOrderIndex>>
    /\ defaultModules_' = defaultModulesAfter(defaultModules_)
    /\ UNCHANGED <<options, store, itemsToExport, cursor, warnings, context, loaded, thrown,
                   warnedBy, faults, returned, storeLoads>>

\* line 383, then the scan of lines 385-388 to the first entry of the type
Prepare ==
    /\ pc = "prepare"
    /\ calls' = Append(calls, prepareCall(typeOrder[typeOrderIndex], itemsToExport))
    /\ LET p == position(itemsToExport, typeOrderIndex, 1) IN
       /\ pc' = p.pc
       /\ typeOrderIndex' = p.typeOrderIndex
       /\ cursor' = p.cursor
    /\ UNCHANGED <<options, store, itemsToExport, warnings, context, loaded, thrown, warnedBy,
                   faults, returned, failure, storeLoads>>

\* lines 390-420 for itemsToExport[cursor], then the scan to the next entry of the type.
\* `item` is what resolving the entry gives, `throwAt` the converter call that throws
\* ("none": no call throws), `message` the message of the error thrown.
ProcessEntryWith(item, throwAt, message) ==
    /\ LET e == itemsToExport[cursor]
           skipped == item = NoItem \/ isEncrypted(item)
           ctx == IF ~skipped /\ e.type = TYPE_RESOURCE
                  THEN setKey(context, item.id, fullPath(item)) ELSE context
           p == position(itemsToExport, typeOrderIndex, cursor + 1)
           nfaults == (IF needsLoad(e.itemOrId) /\ skipped THEN 1 ELSE 0)
                      + (IF throwAt # "none" THEN 1 ELSE 0)
       IN
       /\ faults + nfaults <= MaxFaults
       /\ faults' = faults + nfaults
       /\ loaded' = [loaded EXCEPT ![cursor] = item]
       /\ storeLoads' = IF needsLoad(e.itemOrId) THEN Append(storeLoads, cursor) ELSE storeLoads
       /\ context' = ctx
       /\ calls' = IF skipped THEN calls
                   ELSE calls \o dispatchCalls(e.type, cursor, item, ctx, throwAt)
       /\ thrown' = IF throwAt = "none" THEN thrown
                    ELSE Append(thrown, [idx |-> cursor, op |-> throwAt, message |-> message])
       /\ warnings' = IF item = NoItem THEN pushWarning(warnings, missingWarning(e.type, e.itemOrId.id))
                      ELSE IF isEncrypted(item) THEN pushWarning(warnings, encryptedWarning(e.type, item))
                      ELSE IF throwAt # "none" /\ caught(throwAt)
                           THEN pushWarning(warnings, sprintf(message, <<>>))
                      ELSE warnings
       /\ warnedBy' = IF warnings' # warnings THEN Append(warnedBy, cursor) ELSE warnedBy
       /\ IF throwAt # "none" /\ ~caught(throwAt)
          THEN pc' = "failed" /\ failure' = message /\ UNCHANGED <<typeOrderIndex, cursor>>
          ELSE pc' = p.pc /\ typeOrderIndex' = p.typeOrderIndex /\ cursor' = p.cursor
               /\ UNCHANGED failure
    /\ UNCHANGED <<options, store, itemsToExport, returned>>

ProcessEntry ==
    /\ pc = "dispatch"
    /\ LET e == itemsToExport[cursor] IN
       \E item \in (IF needsLoad(e.itemOrId) THEN LoadResults(e.type, e.itemOrId.id)
                     ELSE {e.itemOrId.item}) :
          \/ ProcessEntryWith(item, "none", "")
          \/ /\ item # NoItem /\ ~isEncrypted(item)
             /\ \E throwAt \in ThrowPoints(e.type) : \E message \in ErrorMessages(throwAt) :
                    ProcessEntryWith(item, throwAt, message)

\* lines 424-426
Close ==
    /\ pc = "close"
    /\ calls' = Append(calls, call("close", "", 0, FALSE, <<>>, <<>>, <<>>))
    /\ returned' = [done |-> TRUE, warnings |-> warnings]
    /\ pc' = "done"
    /\ UNCHANGED <<options, store, itemsToExport, typeOrderIndex, cursor, warnings, context,
                   loaded, thrown, warnedBy, faults, failure, storeLoads>>

\* ------------------------------------------------------------------ import: the run

\* path-utils fileExtension(path): the part after the last dot, '' when there is no dot;
\* a path is the sequence of its dot-separated parts
fileExtension(path) == IF Len(path) <= 1 THEN "" ELSE path[Len(path)]

\* lines 261-266: the defaults of the options
ImportDefaults == [format |-> "auto", destinationFolderId |-> Null, destinationFolder |-> NoItem]

\* the messages of the errors of lines 259, 270 and 277, and of an error of the importer
CannotFindPath == "Cannot find %s. (options.path)"
SpecifyFormat == "Please specify import format for %s"
CannotFindFolder == "Cannot find %s. (options.destinationFolderId)"
ImporterError == "importer error"

\* the options callers pass to import()
ImportOptionInputs ==
    { [path |-> <<"notes", "md">>],
      [path |-> <<"notes", "ENEX">>],
      [path |-> <<"notes", "enex">>, outputFormat |-> Html],
      [path |-> <<"notes", "mdx">>],
      [path |-> <<"notes", "org">>, destinationFolderId |-> "f1"],
      [path |-> <<"dir">>],
      [path |-> <<"dir">>, format |-> "raw", destinationFolderId |-> "f1"],
      [path |-> <<"notes", "enex">>, format |-> "enex", modulePath |-> "custom/importer"],
      [path |-> <<"notes", "zzz">>, format |-> "zzz", modulePath |-> "custom/importer"],
      [path |-> <<"notes", "zzz">>, format |-> "zzz"] }

\* the importers callers register before an import
ImportUserModules ==
    { [type |-> Importer, format |-> "md", fileExtensions |-> <<"mdx">>, sources |-> <<File>>,
       description |-> "MDX"],
      [type |-> Importer, format |-> "org", fileExtensions |-> <<"org">>, outputFormat |-> Html],
      [type |-> Importer, format |-> "org", fileExtensions |-> <<"org">>,
       instanceFactory |-> "orgFactory"] }

\* the warnings of the result an importer's exec may return
ExecWarnings == {<<>>, <<"w1">>, <<"w1", "w2">>}

\* a test the run makes and its outcome
test(name, ok) == [test |-> name, ok |-> ok]

\* a construction of the importer or a call made on it
icall(op, threw, metadata, from) == [op |-> op, threw |-> threw, metadata |-> metadata, from |-> from]

sourceMissing_never(pathExists) == FALSE

\* line 259: !(await shim.fsDriver().exists(options.path))
sourceMissing(pathExists) == ~pathExists

ImportIdle ==
    /\ importPc = "idle"
    /\ importArgs = [path |-> <<>>]
    /\ importOptions = [path |-> <<>>]
    /\ examined = <<>>
    /\ sniffed = NoModule
    /\ importCalls = <<>>
    /\ importResult = NotReturned
    /\ importError = ""

\* lines 258-273: the source is checked, the options are defaulted and with format 'auto'
\* the module is found from the file extension
ImportStart(opts, pathExists) ==
    /\ importPc = "start"
    /\ importArgs' = opts
    /\ LET o == spread(ImportDefaults, opts)
           module == moduleByFileExtension_(modules(defaultModules_, userModules_), Importer,
                                            fileExtension(o.path))
       IN
       IF sourceMissing(pathExists)
       THEN /\ examined' = <<test("exists", pathExists)>>
            /\ importError' = CannotFindPath
            /\ importPc' = "failed"
            /\ UNCHANGED <<importOptions, sniffed, defaultModules_>>
       ELSE IF o.format = "auto"
       THEN /\ examined' = <<test("exists", pathExists),
                             test("moduleByFileExtension_", module # NoModule)>>
            /\ sniffed' = module
            /\ defaultModules_' = defaultModulesAfter(defaultModules_)
            /\ IF module = NoModule
               THEN importError' = SpecifyFormat /\ importPc' = "failed" /\ importOptions' = o
               ELSE /\ importOptions' = [o EXCEPT !.format = module.format]
                    /\ importPc' = "destination"
                    /\ UNCHANGED importError
       ELSE /\ examined' = <<test("exists", pathExists)>>
            /\ importOptions' = o
            /\ importPc' = "destination"
            /\ UNCHANGED <<importError, sniffed, defaultModules_>>
    /\ UNCHANGED <<importCalls, importResult>>

\* lines 275-280: the destination folder is loaded when an id is given
ImportDestination ==
    /\ importPc = "destination"
    /\ IF Truthy(importOptions.destinationFolderId)
       THEN \E folder \in {NoItem, [id |-> importOptions.destinationFolderId]} :
               /\ examined' = Append(examined, test("Folder.load", folder # NoItem))
               /\ IF folder = NoItem
                  THEN importError' = CannotFindFolder /\ importPc' = "failed"
                       /\ UNCHANGED importOptions
                  ELSE /\ importOptions' = [importOptions EXCEPT !.destinationFolder = folder]
                       /\ importPc' = "resolve"
                       /\ UNCHANGED importError
       ELSE importPc' = "resolve" /\ UNCHANGED <<examined, importOptions, importError>>
    /\ UNCHANGED <<importArgs, sniffed, importCalls, importResult>>

\* lines 282-290: the importer is made and gets its metadata, or the run throws
NewImporter ==
    /\ importPc = "resolve"
    /\ LET ms == modules(defaultModules_, userModules_)
           r == IF Truthy(Get(importOptions, "modulePath"))
                THEN newModuleFromPath_(ms, Importer, importOptions)
                ELSE newModuleByFormat_(ms, Importer, importOptions.format,
                                        Get(importOptions, "outputFormat"))
       IN
       /\ examined' = Append(examined, test("findModuleByFormat_", r.metadata # NoModule))
       /\ IF r.ok
          THEN /\ importCalls' = << icall("new", FALSE, NoModule, r.modulePath),
                                    icall("setMetadata", FALSE, r.metadata, <<>>) >>
               /\ importPc' = "init"
               /\ UNCHANGED importError
          ELSE /\ importError' = r.error
               /\ importPc' = "failed"
               /\ UNCHANGED importCalls
    /\ defaultModules_' = defaultModulesAfter(defaultModules_)
    /\ UNCHANGED <<importArgs, importOptions, sniffed, importResult>>

\* line 292: importer.init(options.path, options)
ImporterInit ==
    /\ importPc = "init"
    /\ \E threw \in BOOLEAN :
          /\ importCalls' = Append(importCalls, icall("init", threw, NoModule, <<>>))
          /\ IF threw THEN importError' = ImporterError /\ importPc' = "failed"
             ELSE importPc' = "exec" /\ UNCHANGED importError
    /\ UNCHANGED <<importArgs, importOptions, examined, sniffed, importResult>>

\* lines 293-295: result = importer.exec(result); return result
ImporterExec ==
    /\ importPc = "exec"
    /\ \E threw \in BOOLEAN :
          /\ importCalls' = Append(importCalls, icall("exec", threw, NoModule, <<>>))
          /\ IF threw
             THEN importError' = ImporterError /\ importPc' = "failed" /\ UNCHANGED importResult
             ELSE /\ \E ws \in ExecWarnings : importResult' = [done |-> TRUE, warnings |-> ws]
                  /\ importPc' = "done"
                  /\ UNCHANGED importError
    /\ UNCHANGED <<importArgs, importOptions, examined, sniffed>>

\* ------------------------------------------------------------------ specifications

regObservers == <<userModules_, emitted, regArgs, listenerSaw, listed, listedEarlier, findArgs,
                  found, extArgs, extFound>>

Init == RegistryInit /\ ExportInit /\ ImportIdle

Next ==
    \/ Collect /\ UNCHANGED <<regVars, impVars>>
    \/ NewExporter /\ UNCHANGED <<regObservers, impVars>>
    \/ Prepare /\ UNCHANGED <<regVars, impVars>>
    \/ ProcessEntry /\ UNCHANGED <<regVars, impVars>>
    \/ Close /\ UNCHANGED <<regVars, impVars>>

Spec == Init /\ [][Next]_vars

\* no export run
NoExport ==
    /\ pc = "idle"
    /\ store = [folderOrder |-> <<>>, parent |-> <<>>, notes |-> <<>>, noteTags |-> <<>>]
    /\ options = [path |-> ""]
    /\ ExportIdle

InitRegistry == RegistryInit /\ NoExport /\ ImportIdle

NextRegistry ==
    \/ \E module \in UserModuleInputs : RegisterModule(module) /\ UNCHANGED <<expVars, impVars>>
    \/ ListModules /\ UNCHANGED <<expVars, impVars>>
    \/ \E type \in FindTypes, format \in FindFormats, target \in FindTargets,
          outputFormat \in FindOutputFormats :
           FindModuleByFormat(type, format, target, outputFormat) /\ UNCHANGED <<expVars, impVars>>
    \/ \E type \in FindTypes, ext \in ExtInputs :
           ModuleByFileExtension(type, ext) /\ UNCHANGED <<expVars, impVars>>

SpecRegistry == InitRegistry /\ [][NextRegistry]_vars

ImportInit ==
    /\ importPc = "start"
    /\ importArgs = [path |-> <<>>]
    /\ importOptions = [path |-> <<>>]
    /\ examined = <<>>
    /\ sniffed = NoModule
    /\ importCalls = <<>>
    /\ importResult = NotReturned
    /\ importError = ""

InitImport == RegistryInit /\ NoExport /\ ImportInit

NextImport ==
    \/ \E module \in ImportUserModules :
           importPc = "start" /\ RegisterModule(module) /\ UNCHANGED <<expVars, impVars>>
    \/ \E opts \in ImportOptionInputs, pathExists \in BOOLEAN :
           ImportStart(opts, pathExists) /\ UNCHANGED <<regObservers, expVars>>
    \/ ImportDestination /\ UNCHANGED <<regVars, expVars>>
    \/ NewImporter /\ UNCHANGED <<regObservers, expVars>>
    \/ ImporterInit /\ UNCHANGED <<regVars, expVars>>
    \/ ImporterExec /\ UNCHANGED <<regVars, expVars>>

SpecImport == InitImport /\ [][NextImport]_vars

InitRuns == Init \/ InitImport

NextRuns == Next \/ NextImport

SpecRuns == InitRuns /\ [][NextRuns]_vars

\* ------------------------------------------------------------------ properties of the export run

\* the five item types in the documented priority order:
\* Container, Attachment, Document, Label, LabelAssignment
PriorityRank(itemType) ==
    CASE itemType = TYPE_FOLDER -> 1
      [] itemType = TYPE_RESOURCE -> 2
      [] itemType = TYPE_NOTE -> 3
      [] itemType = TYPE_TAG -> 4
      [] itemType = TYPE_NOTE_TAG -> 5

QueueIdx == 1..Len(itemsToExport)
CallIdx == 1..Len(calls)
PerEntryOps == {"updateContext", "processResource", "processItem"}
IsDispatch(c) == c.op \in {"processResource", "processItem"}

\* the Document entry at queue index d references the Attachment entry at index a
DocReferences(d, a) ==
    /\ itemsToExport[d].type = TYPE_NOTE
    /\ itemsToExport[a].type = TYPE_RESOURCE
    /\ includes(itemsToExport[d].itemOrId.item.body, itemsToExport[a].itemOrId.id)

\* the LabelAssignment entry at queue index n references the Label entry at index t
AssignmentReferences(n, t) ==
    /\ itemsToExport[n].type = TYPE_NOTE_TAG
    /\ itemsToExport[t].type = TYPE_TAG
    /\ \E k \in 1..Len(store.noteTags) :
          /\ store.noteTags[k].id = itemsToExport[n].itemOrId.id
          /\ store.noteTags[k].tag_id = itemsToExport[t].itemOrId.id

\* C1: the per-entry dispatches (processResource / processItem) of a run happen in the
\* type order Container, Attachment, Document, Label, LabelAssignment and, within a
\* type, in enqueue order; so an Attachment entry is dispatched before every Document
\* entry that references it, and a Label entry before every LabelAssignment entry
\* that references it.
C1_DispatchOrder ==
    LET D == SelectSeq(calls, IsDispatch)     \* the dispatches, in the order made
        Of(itemType) == {p \in 1..Len(D) : D[p].type = itemType}
    IN
    /\ \A p \in 1..Len(D) :
          /\ D[p].idx \in QueueIdx
          /\ D[p].type = itemsToExport[D[p].idx].type
    /\ \A p \in 1..(Len(D) - 1) :
          /\ PriorityRank(D[p].type) <= PriorityRank(D[p + 1].type)
          /\ D[p].type = D[p + 1].type => D[p].idx <= D[p + 1].idx
    /\ \A p \in Of(TYPE_NOTE), q \in Of(TYPE_RESOURCE) :
          DocReferences(D[p].idx, D[q].idx) => q < p
    /\ \A p \in Of(TYPE_NOTE_TAG), q \in Of(TYPE_TAG) :
          AssignmentReferences(D[p].idx, D[q].idx) => q < p

\* a finished run in which a Document entry was enqueued before the Attachment entry
\* it references, and both were dispatched; likewise a LabelAssignment and its Label;
\* and two entries of one type were dispatched
C1_Witness ==
    /\ pc = "done"
    /\ \E p, q \in CallIdx :
          /\ calls[p].op = "processItem" /\ calls[q].op = "processItem"
          /\ DocReferences(calls[p].idx, calls[q].idx)
          /\ calls[p].idx < calls[q].idx
    /\ \E p, q \in CallIdx :
          /\ calls[p].op = "processItem" /\ calls[q].op = "processItem"
          /\ AssignmentReferences(calls[p].idx, calls[q].idx)
          /\ calls[p].idx < calls[q].idx
    /\ \E p, q \in CallIdx :
          /\ calls[p].op = "processItem" /\ calls[q].op = "processItem"
          /\ calls[p].type = calls[q].type /\ calls[p].idx < calls[q].idx

\* the entry at queue index j has been resolved and either skipped with a warning or
\* handed to the converter
Handled(j) ==
    /\ loaded[j] # NotLoaded
    /\ \/ \E w \in 1..Len(warnedBy) : warnedBy[w] = j
       \/ \E p \in CallIdx : calls[p].op = "processItem" /\ calls[p].idx = j /\ ~calls[p].threw

WarningsOf(j) == {w \in 1..Len(warnedBy) : warnedBy[w] = j}

RunCompleted ==
    /\ Len(calls) > 0 /\ calls[Len(calls)].op = "close"
    /\ returned.done /\ returned.warnings = warnings
    /\ \A j \in QueueIdx : Handled(j)

\* C2: when processResource or processItem throws for an entry, the run appends a
\* warning equal to the error's message, does not abort, can always go on, and when it
\* is over every entry has been handled, close() was called and a result returned;
\* for any number of failing entries.
C2_FailureIsolation ==
    /\ Len(warnedBy) = Len(warnings)
    /\ \A k \in 1..Len(thrown) :
          /\ pc # "failed"
          /\ Cardinality(WarningsOf(thrown[k].idx)) = 1
          /\ \A w \in WarningsOf(thrown[k].idx) :
                warnings[w].fmt = thrown[k].message /\ warnings[w].args = <<>>
    /\ (thrown # <<>> /\ pc # "done") => ENABLED Next
    /\ (thrown # <<>> /\ pc = "done") => RunCompleted

\* a finished run in which processItem threw for one entry and processResource for
\* another, and an entry after them was processed without error
C2_Witness ==
    /\ pc = "done"
    /\ \E a, b \in 1..Len(thrown) :
          /\ thrown[a].op = "processItem" /\ thrown[b].op = "processResource"
          /\ thrown[a].message # thrown[b].message
          /\ \E p \in CallIdx :
                /\ calls[p].op = "processItem" /\ ~calls[p].threw
                /\ \E q1, q2 \in 1..(p - 1) :
                      /\ calls[q1].threw /\ calls[q1].idx = thrown[a].idx
                      /\ calls[q2].threw /\ calls[q2].idx = thrown[b].idx

\* C3: close() is called at most once in a run, only after all five types have been
\* prepared and every entry has been handled, after every other converter call, and
\* exactly once in a run that completes.
C3_CloseOnceAtEnd ==
    /\ Cardinality({p \in CallIdx : calls[p].op = "close"}) <= 1
    /\ \A p \in CallIdx : calls[p].op = "close" =>
          /\ p = Len(calls)
          /\ \A r \in 1..5 : \E q \in 1..(p - 1) :
                /\ calls[q].op = "prepareForProcessingItemType"
                /\ PriorityRank(calls[q].type) = r
          /\ \A j \in QueueIdx : Handled(j)
    /\ pc = "done" <=> \E p \in CallIdx : calls[p].op = "close"
    /\ pc = "close" => ENABLED Close

\* a finished run with entries of all five types processed and one close() call
C3_Witness ==
    /\ pc = "done"
    /\ calls[Len(calls)].op = "close"
    /\ \A r \in 1..5 : \E p \in CallIdx :
          calls[p].op = "processItem" /\ PriorityRank(calls[p].type) = r

\* the resolved object is flagged as still encrypted
StillEncrypted(item) ==
    \/ ("encryption_applied" \in DOMAIN item /\ item.encryption_applied = TRUE)
    \/ ("encryption_blob_encrypted" \in DOMAIN item /\ item.encryption_blob_encrypted = TRUE)

\* C4: an entry whose object cannot be loaded or is flagged still-encrypted is skipped:
\* exactly one warning for it (naming the id for a missing Attachment), no
\* updateContext / processResource / processItem call for it, the run is not aborted
\* and when it is over all entries have been handled and the result returned.
C4_SkipMissingOrEncrypted ==
    /\ \A j \in QueueIdx : (loaded[j] = NoItem \/ StillEncrypted(loaded[j])) =>
          /\ Cardinality(WarningsOf(j)) = 1
          /\ \A p \in CallIdx : calls[p].op \in PerEntryOps => calls[p].idx # j
          /\ (loaded[j] = NoItem /\ itemsToExport[j].type = TYPE_RESOURCE) =>
                \A w \in WarningsOf(j) : includes(warnings[w].args, itemsToExport[j].itemOrId.id)
          /\ pc # "failed"
          /\ pc = "done" => RunCompleted

\* a finished run with a missing Attachment, an encrypted entry, and another entry
\* processed after both
C4_Witness ==
    /\ pc = "done"
    /\ \E j, k \in QueueIdx :
          /\ loaded[j] = NoItem /\ itemsToExport[j].type = TYPE_RESOURCE
          /\ loaded[k] # NoItem /\ StillEncrypted(loaded[k])
          /\ \E p \in CallIdx :
                /\ calls[p].op = "processItem" /\ ~calls[p].threw
                /\ calls[p].idx > j /\ calls[p].idx > k

EntriesOf(itemType, id) ==
    {j \in QueueIdx : itemsToExport[j].type = itemType /\ itemsToExport[j].itemOrId.id = id}

Collected == pc \notin {"idle", "start"}
NoFilters == listOption(options, "sourceFolderIds") = <<>> /\ listOption(options, "sourceNoteIds") = <<>>
StoreFolders == DOMAIN store.parent
StoreNotes == {store.notes[k].id : k \in 1..Len(store.notes)}
ReferencedBy(r) == {k \in 1..Len(store.notes) : includes(store.notes[k].body, r)}
QueuedIds(itemType) == {itemsToExport[j].itemOrId.id : j \in {i \in QueueIdx : itemsToExport[i].type = itemType}}

C6_LabelEntriesDistinct ==
    Collected =>
       \A i, j \in QueueIdx :
          (/\ i < j
           /\ itemsToExport[i].type = TYPE_TAG
           /\ itemsToExport[j].type = TYPE_TAG) => itemsToExport[i].itemOrId.id # itemsToExport[j].itemOrId.id

SourceFolders == listOption(options, "sourceFolderIds")
SourceNotes == listOption(options, "sourceNoteIds")
Elems(seq) == {seq[k] : k \in 1..Len(seq)}

\* container f is listed in the source-container-id list or has an ancestor that is
RECURSIVE UnderSource(_)
UnderSource(f) ==
    \/ f \in Elems(SourceFolders)
    \/ (f \in StoreFolders /\ store.parent[f] \in StoreFolders /\ UnderSource(store.parent[f]))

Considered == {f \in StoreFolders : UnderSource(f)}
NotesUnder(F) == {store.notes[k].id : k \in {i \in 1..Len(store.notes) : store.notes[i].parent_id \in F}}

\* C11: with a non-empty source-container-id list F the containers considered are F and
\* all transitive descendants of F's containers. Without a document filter the queue
\* holds exactly one Container entry for each of them (also when F lists a container and
\* one of its descendants) and exactly one Document entry for each document under them;
\* with a document filter it holds no Container entry, and Document entries exactly for
\* the documents that pass the document filter and lie in a considered container.
C11_ContainerFilter ==
    (Collected /\ SourceFolders # <<>>) =>
       IF SourceNotes = <<>>
       THEN /\ QueuedIds(TYPE_FOLDER) = Considered
            /\ \A f \in Considered : Cardinality(EntriesOf(TYPE_FOLDER, f)) = 1
            /\ QueuedIds(TYPE_NOTE) = NotesUnder(Considered)
            /\ \A n \in NotesUnder(Considered) : Cardinality(EntriesOf(TYPE_NOTE, n)) = 1
       ELSE /\ QueuedIds(TYPE_FOLDER) = {}
            /\ QueuedIds(TYPE_NOTE) = NotesUnder(Considered) \cap Elems(SourceNotes)
            /\ \A n \in QueuedIds(TYPE_NOTE) : Cardinality(EntriesOf(TYPE_NOTE, n)) = 1

\* collection with a list F that names a container and its child, no document filter:
\* the child has one Container entry and the attachment of its document is queued
C11_Witness ==
    /\ Collected
    /\ SourceFolders = <<"f1", "f2">> /\ SourceNotes = <<>>
    /\ store.parent["f2"] = "f1"
    /\ Cardinality(EntriesOf(TYPE_FOLDER, "f2")) = 1
    /\ QueuedIds(TYPE_NOTE) = {"n1", "n2"}
    /\ QueuedIds(TYPE_RESOURCE) # {}

IsPrepare(c) == c.op = "prepareForProcessingItemType"
Prepares == SelectSeq(calls, IsPrepare)

\* the prepareForProcessingItemType and per-entry calls, in the order made
TypedCalls == SelectSeq(calls, LAMBDA c : IsPrepare(c) \/ c.op \in PerEntryOps)

\* C12: prepareForProcessingItemType is called once per type in the order Container,
\* Attachment, Document, Label, LabelAssignment (five times in a run that completes, also
\* for a type without entry), each time with the whole queue; every per-entry call for
\* type T comes after the prepare call for T and before the prepare call of the next
\* type, so the run never returns to an earlier type. Stated on consecutive calls: the
\* first typed call is the prepare call for Container, a prepare call is for the type
\* next to that of the call before it, and a per-entry call is for the type of the call
\* before it.
C12_PrepareEachTypeOnce ==
    LET P == Prepares
        T == TypedCalls
    IN
    /\ Len(P) <= 5
    /\ \A k \in 1..Len(P) : PriorityRank(P[k].type) = k /\ P[k].queue = itemsToExport
    /\ pc = "done" => Len(P) = 5
    /\ Len(T) > 0 => IsPrepare(T[1])
    /\ \A p \in 1..(Len(T) - 1) :
          IF IsPrepare(T[p + 1])
          THEN PriorityRank(T[p + 1].type) = PriorityRank(T[p].type) + 1
          ELSE T[p + 1].type = T[p].type

\* a finished run whose queue has Attachment and Document entries but no Label entry
C12_Witness ==
    /\ pc = "done"
    /\ Len(Prepares) = 5
    /\ QueuedIds(TYPE_TAG) = {} /\ QueuedIds(TYPE_NOTE_TAG) = {}
    /\ QueuedIds(TYPE_RESOURCE) # {}
    /\ \E p \in CallIdx : calls[p].op = "processResource"

IsUpdateContext(c) == c.op = "updateContext"
EntryId(j) == itemsToExport[j].itemOrId.id

\* call p is followed by a call `op` for the same entry
FollowedBy(p, op) == p < Len(calls) /\ calls[p + 1].op = op /\ calls[p + 1].idx = calls[p].idx
\* call p is the last call made for its entry
LastOfEntry(p) == p = Len(calls) \/ calls[p + 1].idx # calls[p].idx
\* call p comes right after a call `op` for the same entry that returned
Follows(p, op) ==
    p > 1 /\ calls[p - 1].op = op /\ calls[p - 1].idx = calls[p].idx /\ ~calls[p - 1].threw

\* C15: for a dispatched Attachment entry the calls are updateContext(context), with the
\* entry's id mapped to its path in the context, then processResource(item, path), then
\* processItem; a call that throws ends the calls for the entry (no processItem after a
\* processResource that threw); the context passed to updateContext keeps every mapping
\* of the earlier calls, so it maps every attachment dispatched so far to its own path;
\* updateContext and processResource are only called for Attachment entries.
C15_AttachmentCalls ==
    LET U == SelectSeq(calls, IsUpdateContext) IN
    /\ \A p \in CallIdx :
          LET c == calls[p] IN
          /\ c.op \in {"updateContext", "processResource"} =>
                c.type = TYPE_RESOURCE /\ itemsToExport[c.idx].type = TYPE_RESOURCE
          /\ c.op = "updateContext" =>
                /\ EntryId(c.idx) \in DOMAIN c.ctx
                /\ c.ctx[EntryId(c.idx)] = fullPath(loaded[c.idx])
                /\ IF c.threw THEN LastOfEntry(p)
                   ELSE FollowedBy(p, "processResource") /\ calls[p + 1].path = c.ctx[EntryId(c.idx)]
          /\ c.op = "processResource" =>
                /\ Follows(p, "updateContext")
                /\ IF c.threw THEN LastOfEntry(p) ELSE FollowedBy(p, "processItem")
          /\ (c.op = "processItem" /\ c.type = TYPE_RESOURCE) => Follows(p, "processResource")
    /\ \A k \in 1..(Len(U) - 1) :
          \A x \in DOMAIN U[k].ctx : x \in DOMAIN U[k + 1].ctx /\ U[k + 1].ctx[x] = U[k].ctx[x]
    /\ \A k \in 1..Len(U) : \A x \in DOMAIN U[k].ctx : U[k].ctx[x] = fullPath([id |-> x])

\* a finished run with two Attachment entries dispatched: processResource threw for the
\* first, and the context of the second updateContext call maps both attachments
C15_Witness ==
    /\ pc = "done"
    /\ LET U == SelectSeq(calls, IsUpdateContext) IN
       /\ Len(U) = 2
       /\ Cardinality(DOMAIN U[2].ctx) = 2
       /\ \E p \in CallIdx :
             calls[p].op = "processResource" /\ calls[p].threw /\ calls[p].idx = U[1].idx
       /\ \E p \in CallIdx :
             calls[p].op = "processItem" /\ ~calls[p].threw /\ calls[p].idx = U[2].idx

ResolvedExporter == pc \notin {"idle", "start", "collected"}

\* C17: when no descriptor matches (Exporter, options.format, options.target), with or
\* without an implementation-path override in the options, the export fails with the
\* module-not-found error and no converter call has been made.
C17_ModuleNotFound ==
    (/\ ResolvedExporter
     /\ findModuleByFormat_(modules(defaultModules_, userModules_), Exporter,
                            Get(options, "format"), Get(options, "target"), Null) = NoModule) =>
       /\ pc = "failed"
       /\ calls = <<>>
       /\ failure = CannotLoadForTarget

Succeeded(j) == {p \in CallIdx : calls[p].op = "processItem" /\ calls[p].idx = j /\ ~calls[p].threw}

\* C19: the warnings never outnumber the queue entries, and when an export has
\* completed every queue entry has exactly one outcome: one processItem call that
\* returned and no warning, or exactly one warning and no processItem call that
\* returned; so warnings plus successful processItem calls equal the queue length.
C19_OneOutcomePerEntry ==
    /\ Len(warnings) <= Len(itemsToExport)
    /\ pc = "done" =>
          /\ \A j \in QueueIdx :
                /\ Cardinality(WarningsOf(j)) + Cardinality(Succeeded(j)) = 1
          /\ Len(warnings) + Cardinality({p \in CallIdx : calls[p].op = "processItem" /\ ~calls[p].threw})
                = Len(itemsToExport)

\* a finished run with a missing entry, an encrypted entry, an entry whose converter call
\* threw, and entries processed without warning
C19_Witness ==
    /\ pc = "done"
    /\ Len(warnings) = 3
    /\ thrown # <<>>
    /\ \E j, k \in QueueIdx : loaded[j] = NoItem /\ loaded[k] # NoItem /\ StillEncrypted(loaded[k])
    /\ Len(itemsToExport) > 3

\* C20: converter calls are made only after collection, the queue does not change once
\* the first converter call has been made, every prepareForProcessingItemType call got
\* the queue as it is at the end, and ItemClass.load is only called for entries that hold
\* an id: never for a Document entry, which holds the loaded object.
C20_QueueFrozen ==
    /\ [](/\ calls # <<>> => Collected
          /\ \A k \in 1..Len(Prepares) : Prepares[k].queue = itemsToExport
          /\ \A k \in 1..Len(storeLoads) :
                /\ ~itemsToExport[storeLoads[k]].itemOrId.isObject
                /\ itemsToExport[storeLoads[k]].type # TYPE_NOTE)
    /\ [][(calls # <<>> \/ pc = "collected") => itemsToExport' = itemsToExport]_vars

\* a finished run in which Document entries were processed and other entries were loaded
\* from the store
C20_Witness ==
    /\ pc = "done"
    /\ Len(Prepares) = 5
    /\ Cardinality({p \in CallIdx : calls[p].op = "processItem" /\ calls[p].type = TYPE_NOTE}) = 2
    /\ Len(storeLoads) = Len(itemsToExport) - 2
    /\ Len(storeLoads) > 3

\* ------------------------------------------------------------------ properties of the registry

BuiltIns == importModules \o exportModules
AllModules == BuiltIns \o userModules_

\* module m is left by the filter of a findModuleByFormat_ call with arguments a: the
\* type and format are a's and, when a supplies a target or an outputFormat, m has one
\* of the values supplied
Candidate(m, a) ==
    /\ m.type = a.type /\ m.format = a.format
    /\ (a.target # Null \/ a.outputFormat # Null) =>
          \/ (a.target # Null /\ "target" \in DOMAIN m /\ m.target = a.target)
          \/ (a.outputFormat # Null /\ m.outputFormat = a.outputFormat)

\* C7: findModuleByFormat returns the first candidate in list order with isDefault=true
\* if there is one, otherwise the first candidate in list order, and 'not found' exactly
\* when there is no candidate.
C7_DefaultThenFirst ==
    findArgs.called =>
       LET ms == AllModules
           C == {i \in 1..Len(ms) : Candidate(ms[i], findArgs)}
           Dflt == {i \in C : ms[i].isDefault}
       IN
       /\ found = NoModule <=> C = {}
       /\ Dflt # {} => \E i \in Dflt : found = ms[i] /\ \A j \in Dflt : i <= j
       /\ (C # {} /\ Dflt = {}) => \E i \in C : found = ms[i] /\ \A j \in C : i <= j

\* a lookup with three candidates, the first not default, the other two default: the
\* first of the two defaults was returned
C7_Witness ==
    /\ findArgs.called
    /\ LET ms == AllModules
           C == {i \in 1..Len(ms) : Candidate(ms[i], findArgs)}
           Dflt == {i \in C : ms[i].isDefault}
       IN /\ Cardinality(C) = 3 /\ Cardinality(Dflt) = 2
          /\ \E i \in C \ Dflt : \A j \in Dflt : i < j
          /\ \E i, j \in Dflt : i < j /\ ms[i] # ms[j] /\ found = ms[i]

\* C8: the descriptor returned by findModuleByFormat satisfies the discriminator of the
\* call: with a target supplied it has that target (an importer: that source), whatever
\* outputFormat is passed; with only an outputFormat supplied it has that outputFormat.
C8_DiscriminatorHonoured ==
    (findArgs.called /\ found # NoModule) =>
       /\ findArgs.target # Null =>
             \/ ("target" \in DOMAIN found /\ found.target = findArgs.target)
             \/ (found.type = Importer /\ includes(found.sources, findArgs.target))
       /\ (findArgs.target = Null /\ findArgs.outputFormat # Null) =>
             found.outputFormat = findArgs.outputFormat

\* x is the descriptor m with the defaults of its type filled in under m's own fields
FilledIn(x, m) ==
    LET d == defaultImportExportModule(m.type) IN
    /\ DOMAIN x = DOMAIN m \cup DOMAIN d
    /\ \A f \in DOMAIN m : x[f] = m[f]
    /\ \A f \in DOMAIN d \ DOMAIN m : x[f] = d[f]

\* C9: every registerModule(m) emits exactly one modulesChanged notification, the
\* subscriber that lists the modules from its callback already sees m with the defaults
\* filled in (m's own fields winning), and so does every later listModules().
C9_RegisterVisibleAndNotified ==
    /\ emitted = Len(regArgs)
    /\ Len(regArgs) > 0 =>
          /\ Len(listenerSaw) > 0
          /\ FilledIn(listenerSaw[Len(listenerSaw)], regArgs[Len(regArgs)])
    /\ listed.called =>
          \A k \in 1..Len(regArgs) : \E i \in 1..Len(listed.value) : FilledIn(listed.value[i], regArgs[k])

\* two modules were registered, the last one overriding the defaults of isDefault and
\* outputFormat, and the modules were listed afterwards
C9_Witness ==
    /\ Len(regArgs) = 2
    /\ "isDefault" \in DOMAIN regArgs[2] /\ regArgs[2].isDefault
    /\ "outputFormat" \in DOMAIN regArgs[2] /\ regArgs[2].outputFormat = Html
    /\ regArgs[1] # regArgs[2]
    /\ listed.called
    /\ emitted = 2

\* C10: listModules() is the built-in list followed by the registered modules in
\* registration order; the cached built-in list never changes and a registration made
\* after a listModules() call is in the next one.
C10_BuiltInsThenRegistered ==
    /\ defaultModules_ \in {<<>>, BuiltIns}
    /\ Len(userModules_) = Len(regArgs)
    /\ listed.called =>
          /\ Len(listed.value) = Len(BuiltIns) + Len(regArgs)
          /\ \A i \in 1..Len(BuiltIns) : listed.value[i] = BuiltIns[i]
          /\ \A k \in 1..Len(regArgs) : FilledIn(listed.value[Len(BuiltIns) + k], regArgs[k])

\* the modules were listed, then two different modules were registered, then the
\* modules were listed again
C10_Witness ==
    /\ listedEarlier
    /\ listed.called
    /\ Len(regArgs) = 2 /\ regArgs[1] # regArgs[2]

\* the module list the lookup ran on, and the modules of the type asked for that declare
\* the extension asked for, extensions compared without regard to case
DeclaresExt(m, ext) ==
    \E k \in 1..Len(m.fileExtensions) : toLowerCase(m.fileExtensions[k]) = toLowerCase(ext)

\* C14: moduleByFileExtension(type, ext) returns the first module of the type, in list
\* order, whose extension set contains ext when compared without regard to case (also a
\* registered module that declares its extension in upper case), 'not found' only when
\* there is none, and a lookup of ext in another letter case returns the same module.
C14_ExtensionCaseInsensitive ==
    extArgs.called =>
       LET ms == AllModules
           M == {i \in 1..Len(ms) : ms[i].type = extArgs.type /\ DeclaresExt(ms[i], extArgs.ext)}
       IN
       /\ extFound = NoModule <=> M = {}
       /\ M # {} => \E i \in M : extFound = ms[i] /\ \A j \in M : i <= j
       /\ \A other \in ExtInputs :
             toLowerCase(other) = toLowerCase(extArgs.ext) =>
                moduleByFileExtension_(ms, extArgs.type, other) = extFound

\* ------------------------------------------------------------------ properties of the import run

ImportOps(op) == {p \in 1..Len(importCalls) : importCalls[p].op = op}
FailedTests == {k \in 1..Len(examined) : ~examined[k].ok}
ModuleNotFound == {CannotLoadForOutput, CannotLoadForTarget}

\* C13: in an import run the importer's init and exec are each called at most once, exec
\* only after init has returned; when the source does not exist, no importer matches the
\* extension under format 'auto', the destination folder cannot be loaded or no module
\* is found, the run fails at that test and no importer is made or called; and the
\* existence of the source is the first thing checked, nothing else being examined when
\* it is missing.
C13_ImportStraightLine ==
    /\ Cardinality(ImportOps("new")) <= 1
    /\ Cardinality(ImportOps("init")) <= 1
    /\ Cardinality(ImportOps("exec")) <= 1
    /\ \A p \in ImportOps("init") : \E q \in ImportOps("new") : q < p
    /\ \A p \in ImportOps("exec") : \E q \in ImportOps("init") : q < p /\ ~importCalls[q].threw
    /\ importPc = "done" => ImportOps("init") # {} /\ ImportOps("exec") # {}
    /\ examined # <<>> => examined[1].test = "exists"
    /\ \A k \in FailedTests :
          /\ k = Len(examined)
          /\ importPc = "failed"
          /\ importCalls = <<>>
          /\ examined[k].test = "exists" => importError = CannotFindPath /\ k = 1
          /\ examined[k].test = "moduleByFileExtension_" => importError = SpecifyFormat
          /\ examined[k].test = "Folder.load" => importError = CannotFindFolder
    /\ importError \in {CannotFindPath, SpecifyFormat, CannotFindFolder} \cup ModuleNotFound =>
          importCalls = <<>> /\ FailedTests # {}

\* a finished import whose format was found from the extension and whose destination
\* folder was loaded: init then exec were called
C13_Witness ==
    /\ importPc = "done"
    /\ Len(examined) = 4 /\ FailedTests = {}
    /\ Len(importCalls) = 4
    /\ importCalls[3].op = "init" /\ importCalls[4].op = "exec"
    /\ importResult.done

\* C18: in an import with format 'auto' and no explicit implementation path, once the
\* extension lookup has found a module, the import does not fail with module-not-found
\* and the descriptor passed to setMetadata is the one the lookup returned.
C18_AutoRunsSniffedModule ==
    (/\ importPc \notin {"idle", "start"}
     /\ Get(importArgs, "format") \in {Null, "auto"}
     /\ ~Truthy(Get(importArgs, "modulePath"))
     /\ sniffed # NoModule) =>
       /\ importError \notin ModuleNotFound
       /\ \A p \in ImportOps("setMetadata") : importCalls[p].metadata = sniffed

\* ------------------------------------------------------------------ properties of both runs

IsPrefix(a, b) == Len(a) <= Len(b) /\ SubSeq(b, 1, Len(a)) = a

\* the entry of warning w was dispatched before the entry of warning w + 1
DispatchedBefore(i, j) ==
    \/ PriorityRank(itemsToExport[i].type) < PriorityRank(itemsToExport[j].type)
    \/ (itemsToExport[i].type = itemsToExport[j].type /\ i < j)

\* C16: in every step of an import or export run the warnings sequence of the result
\* keeps the previous sequence as a prefix, and in an export the warnings are in the
\* order in which the entries that caused them were dispatched.
C16_WarningsAppendOnly ==
    /\ [](/\ Len(warnedBy) = Len(warnings)
          /\ \A w \in 1..(Len(warnedBy) - 1) : DispatchedBefore(warnedBy[w], warnedBy[w + 1]))
    /\ [][/\ IsPrefix(warnings, warnings')
          /\ IsPrefix(importResult.warnings, importResult.warnings')]_vars

\* a finished export with two warnings, the first one caused by an entry that was
\* enqueued after the entry that caused the second
C16_Witness ==
    /\ pc = "done"
    /\ Len(warnings) = 2
    /\ warnedBy[1] > warnedBy[2]
    /\ returned.warnings = warnings

====
